---- MODULE Spec2Model ----
(***************************************************************************)
(* Model of package transcode (src/transcode/transcode.go): the codec      *)
(* policy selector streamArgs, the four argument-vector builders, the      *)
(* ad-hoc command tokenizer parseCommandLine, and the launcher             *)
(* transcodePipe with its background reaper goroutine, the subprocess and  *)
(* the caller reading the returned stdout pipe.                            *)
(*                                                                         *)
(* Go strings that are scanned byte by byte (the ad-hoc command) are       *)
(* sequences of one-character strings; every other Go string is a string.  *)
(* A nil slice and an empty slice are both <<>>.  A nil error is "nil".    *)
(* Durations are whole seconds.                                            *)
(***************************************************************************)
EXTENDS Integers, Sequences, FiniteSets, TLC

VARIABLES
    pc,        \* position of the calling goroutine
    req,       \* the exported function called and its parameters
    info,      \* result of ffprobe.Run in Transcode
    args,      \* the argument vector built so far / handed to transcodePipe
    cmda,      \* Exec: tokens returned by parseCommandLine
    aerr,      \* Exec: error returned by parseCommandLine
    r,         \* named result r: "nil" or "pr" (the read end of the pipe)
    err,       \* named result err
    pr,        \* parent's read end of the stdout pipe: "none", "open", "closed"
    buf,       \* bytes written to the pipe and not yet read
    written,   \* every byte the subprocess has written to its stdout
    proc,      \* the subprocess: "none", "running", "exited"
    exitCode,  \* exit status of the subprocess once proc = "exited"
    reaper,    \* the goroutine of lines 33-38: "none", "Wait", "Log", "done"
    waitErr,   \* the reaper's local err, result of cmd.Wait()
    log,       \* records written through the process-wide logger
    got,       \* bytes the caller has read from the returned stream
    readErr    \* outcome of the caller's last Read: "none", "EOF", "closed"

vars == <<pc, req, info, args, cmda, aerr, r, err, pr, buf, written, proc,
          exitCode, reaper, waitErr, log, got, readErr>>

----------------------------------------------------------------------------
(* Bounds of the model *)

MaxLen == 3        \* longest enumerated ad-hoc command, in characters
MaxStreams == 1    \* most streams a probe returns
MaxOut == 1        \* most bytes the subprocess writes to stdout

NumCPU == 4

SeqsUpTo(S, n) == UNION {[1..m -> S] : m \in 0..n}

----------------------------------------------------------------------------
(* Values of map[string]interface{}: nil (also a missing key), a string,   *)
(* or a float64.  ffprobe decodes JSON, whose stream indexes are integral  *)
(* numbers, so a float64 is represented by its integer value.              *)

Nil == [t |-> "nil", s |-> "", n |-> 0]
Str(x) == [t |-> "string", s |-> x, n |-> 0]
F64(k) == [t |-> "float64", s |-> "", n |-> k]

\* interface value == string constant, as in `s["codec_type"]` switch cases
IsStr(v, x) == v.t = "string" /\ v.s = x

CodecTypes == {Str("video"), Str("audio"), Str("subtitle")}
OtherCodecTypes == {Str("data"), Nil}
CodecNames == {Str("dca"), Str("aac")}
Indexes == {F64(0), F64(1)}
OtherIndexes == {Nil, Str("1")}

\* the stream descriptors a probe returns: the recognised types with either
\* codec name and a numeric index, unrecognised or missing types, and
\* descriptors whose index is missing or not a number
Descriptors ==
    [codec_type : CodecTypes, codec_name : CodecNames, index : Indexes]
    \cup [codec_type : OtherCodecTypes, codec_name : {Str("aac")},
          index : {F64(0), Nil}]
    \cup [codec_type : CodecTypes \cup OtherCodecTypes,
          codec_name : {Str("aac")}, index : OtherIndexes]

\* strconv.Itoa(int(f)) for an integral float64
Itoa(k) == ToString(k)

\* streamArgsSwitch without the "dca" test: every audio stream is copied
streamArgsSwitch_AudioAlwaysCopied(s) ==
    IF IsStr(s.codec_type, "video") THEN <<"-target", "pal-dvd">>
    ELSE IF IsStr(s.codec_type, "audio") THEN <<"-acodec", "copy">>
    ELSE IF IsStr(s.codec_type, "subtitle") THEN <<"-scodec", "copy">>
    ELSE <<>>

\* the switch of streamArgs, lines 52-71
streamArgsSwitch(s) ==
    IF IsStr(s.codec_type, "video") THEN <<"-target", "pal-dvd">>
    ELSE IF IsStr(s.codec_type, "audio") THEN
        IF IsStr(s.codec_name, "dca")
        THEN <<"-acodec", "ac3", "-ab", "224k", "-ac", "2">>
        ELSE <<"-acodec", "copy">>
    ELSE IF IsStr(s.codec_type, "subtitle") THEN <<"-scodec", "copy">>
    ELSE <<>>

\* streamArgs with its deferred function, lines 44-72.  The type assertion
\* s["index"].(float64) panics unless the value is a float64.
streamArgs(s) ==
    LET ret == streamArgsSwitch(s) IN
    IF Len(ret) # 0
    THEN IF s.index.t = "float64"
         THEN [panic |-> FALSE,
               ret |-> ret \o <<"-map", "0:" \o Itoa(s.index.n)>>]
         ELSE [panic |-> TRUE, ret |-> <<>>]
    ELSE [panic |-> FALSE, ret |-> ret]

----------------------------------------------------------------------------
(* Duration formatting (package misc): HH:MM:SS of a whole-second duration *)

Pad2(k) == IF k < 10 THEN "0" \o ToString(k) ELSE ToString(k)

FormatDurationSexagesimal(d) ==
    LET sec == d % 60
        m == (d \div 60) % 60
        h == d \div 3600
    IN Pad2(h) \o ":" \o Pad2(m) \o ":" \o Pad2(sec)

----------------------------------------------------------------------------
(* The argument vectors of the four builders *)

\* TranscodeHead with the length test of the other three builders
TranscodeHead_PositiveLengthOnly(path, start, length) ==
    <<"ffmpeg", "-threads", ToString(NumCPU), "-async", "1",
      "-ss", FormatDurationSexagesimal(start)>>
    \o (IF length > 0
        THEN <<"-t", FormatDurationSexagesimal(length)>> ELSE <<>>)
    \o <<"-i", path>>

\* Transcode, lines 76-89: the vector before the probe
TranscodeHead(path, start, length) ==
    <<"ffmpeg", "-threads", ToString(NumCPU), "-async", "1",
      "-ss", FormatDurationSexagesimal(start)>>
    \o (IF length >= 0
        THEN <<"-t", FormatDurationSexagesimal(length)>> ELSE <<>>)
    \o <<"-i", path>>

\* Transcode, lines 94-96: the loop over info.Streams
RECURSIVE StreamsArgs(_)
StreamsArgs(streams) ==
    IF streams = <<>> THEN [panic |-> FALSE, ret |-> <<>>]
    ELSE LET a == streamArgs(Head(streams))
             rest == StreamsArgs(Tail(streams))
         IN IF a.panic \/ rest.panic
            THEN [panic |-> TRUE, ret |-> <<>>]
            ELSE [panic |-> FALSE, ret |-> a.ret \o rest.ret]

\* Transcode, line 97
TranscodeTail == <<"-f", "mpegts", "pipe:">>

\* VP8Transcode, lines 103-120
VP8TranscodeArgs(path, start, length) ==
    <<"avconv", "-threads", ToString(NumCPU), "-async", "1",
      "-ss", FormatDurationSexagesimal(start)>>
    \o (IF length > 0
        THEN <<"-t", FormatDurationSexagesimal(length)>> ELSE <<>>)
    \o <<"-i", path, "-f", "webm", "pipe:">>

\* ChromecastTranscodeArgs with the -t pair placed as in Transcode
ChromecastTranscodeArgs_LengthBeforeInput(path, start, length) ==
    <<"ffmpeg", "-ss", FormatDurationSexagesimal(start)>>
    \o (IF length > 0
        THEN <<"-t", FormatDurationSexagesimal(length)>> ELSE <<>>)
    \o <<"-i", path,
         "-c:v", "libx264", "-preset", "ultrafast", "-profile:v", "high",
         "-level", "5.0",
         "-movflags", "+faststart+frag_keyframe+empty_moov",
         "-f", "mp4", "pipe:">>

\* ChromecastTranscode, lines 126-141
ChromecastTranscodeArgs(path, start, length) ==
    <<"ffmpeg", "-ss", FormatDurationSexagesimal(start), "-i", path,
      "-c:v", "libx264", "-preset", "ultrafast", "-profile:v", "high",
      "-level", "5.0",
      "-movflags", "+faststart+frag_keyframe+empty_moov">>
    \o (IF length > 0
        THEN <<"-t", FormatDurationSexagesimal(length)>> ELSE <<>>)
    \o <<"-f", "mp4", "pipe:">>

\* WebTranscode, lines 147-165
WebTranscodeArgs(path, start, length) ==
    <<"ffmpeg", "-ss", FormatDurationSexagesimal(start), "-i", path,
      "-pix_fmt", "yuv420p", "-c:v", "libx264", "-crf", "25",
      "-c:a", "mp3", "-ab", "128k", "-ar", "44100",
      "-preset", "ultrafast",
      "-movflags", "+faststart+frag_keyframe+empty_moov">>
    \o (IF length > 0
        THEN <<"-t", FormatDurationSexagesimal(length)>> ELSE <<>>)
    \o <<"-f", "mp4", "pipe:">>

----------------------------------------------------------------------------
(* The tokenizer parseCommandLine, lines 170-233 *)

RECURSIVE Text(_)
\* the Go string of a scanned command
Text(command) ==
    IF command = <<>> THEN "" ELSE Head(command) \o Text(Tail(command))

\* ParseInit with the escape flag initially off
ParseInit_NoForcedEscape ==
    [args |-> <<>>, state |-> "start", current |-> "", quote |-> "\"",
     escapeNext |-> FALSE]

\* locals before the loop, lines 171-175
ParseInit ==
    [args |-> <<>>, state |-> "start", current |-> "", quote |-> "\"",
     escapeNext |-> TRUE]

\* ParseStep that tests the arg state before the quote characters, so that
\* a quote opens the quotes state from the start state only
ParseStep_QuoteOnlyAtStart(st, c) ==
    IF st.state = "quotes" THEN
        IF c # st.quote
        THEN [st EXCEPT !.current = @ \o c]
        ELSE [st EXCEPT !.args = Append(@, st.current),
                        !.current = "", !.state = "start"]
    ELSE IF st.escapeNext THEN
        [st EXCEPT !.current = @ \o c, !.escapeNext = FALSE]
    ELSE IF c = "\\" THEN
        [st EXCEPT !.escapeNext = TRUE]
    ELSE IF st.state = "arg" THEN
        IF c = " " \/ c = "\t"
        THEN [st EXCEPT !.args = Append(@, st.current),
                        !.current = "", !.state = "start"]
        ELSE [st EXCEPT !.current = @ \o c]
    ELSE IF c = "\"" \/ c = "'" THEN
        [st EXCEPT !.state = "quotes", !.quote = c]
    ELSE IF c # " " /\ c # "\t" THEN
        [st EXCEPT !.state = "arg", !.current = @ \o c]
    ELSE st

\* ParseStep without the backslash test of lines 196-199
ParseStep_BackslashOrdinary(st, c) ==
    IF st.state = "quotes" THEN
        IF c # st.quote
        THEN [st EXCEPT !.current = @ \o c]
        ELSE [st EXCEPT !.args = Append(@, st.current),
                        !.current = "", !.state = "start"]
    ELSE IF st.escapeNext THEN
        [st EXCEPT !.current = @ \o c, !.escapeNext = FALSE]
    ELSE IF c = "\"" \/ c = "'" THEN
        [st EXCEPT !.state = "quotes", !.quote = c]
    ELSE IF st.state = "arg" THEN
        IF c = " " \/ c = "\t"
        THEN [st EXCEPT !.args = Append(@, st.current),
                        !.current = "", !.state = "start"]
        ELSE [st EXCEPT !.current = @ \o c]
    ELSE IF c # " " /\ c # "\t" THEN
        [st EXCEPT !.state = "arg", !.current = @ \o c]
    ELSE st

\* ParseStep whose closing quote emits the token only when it is not empty
ParseStep_NoEmptyQuoted(st, c) ==
    IF st.state = "quotes" THEN
        IF c # st.quote
        THEN [st EXCEPT !.current = @ \o c]
        ELSE IF st.current # ""
        THEN [st EXCEPT !.args = Append(@, st.current),
                        !.current = "", !.state = "start"]
        ELSE [st EXCEPT !.state = "start"]
    ELSE IF st.escapeNext THEN
        [st EXCEPT !.current = @ \o c, !.escapeNext = FALSE]
    ELSE IF c = "\\" THEN
        [st EXCEPT !.escapeNext = TRUE]
    ELSE IF c = "\"" \/ c = "'" THEN
        [st EXCEPT !.state = "quotes", !.quote = c]
    ELSE IF st.state = "arg" THEN
        IF c = " " \/ c = "\t"
        THEN [st EXCEPT !.args = Append(@, st.current),
                        !.current = "", !.state = "start"]
        ELSE [st EXCEPT !.current = @ \o c]
    ELSE IF c # " " /\ c # "\t" THEN
        [st EXCEPT !.state = "arg", !.current = @ \o c]
    ELSE st

\* ParseStep whose escape branch drops the escaped character
ParseStep_SwallowEscaped(st, c) ==
    IF st.state = "quotes" THEN
        IF c # st.quote
        THEN [st EXCEPT !.current = @ \o c]
        ELSE [st EXCEPT !.args = Append(@, st.current),
                        !.current = "", !.state = "start"]
    ELSE IF st.escapeNext THEN
        [st EXCEPT !.escapeNext = FALSE]
    ELSE IF c = "\\" THEN
        [st EXCEPT !.escapeNext = TRUE]
    ELSE IF c = "\"" \/ c = "'" THEN
        [st EXCEPT !.state = "quotes", !.quote = c]
    ELSE IF st.state = "arg" THEN
        IF c = " " \/ c = "\t"
        THEN [st EXCEPT !.args = Append(@, st.current),
                        !.current = "", !.state = "start"]
        ELSE [st EXCEPT !.current = @ \o c]
    ELSE IF c # " " /\ c # "\t" THEN
        [st EXCEPT !.state = "arg", !.current = @ \o c]
    ELSE st

\* one iteration of the loop on character c, lines 177-221
ParseStep(st, c) ==
    IF st.state = "quotes" THEN
        IF c # st.quote
        THEN [st EXCEPT !.current = @ \o c]
        ELSE [st EXCEPT !.args = Append(@, st.current),
                        !.current = "", !.state = "start"]
    ELSE IF st.escapeNext THEN
        [st EXCEPT !.current = @ \o c, !.escapeNext = FALSE]
    ELSE IF c = "\\" THEN
        [st EXCEPT !.escapeNext = TRUE]
    ELSE IF c = "\"" \/ c = "'" THEN
        [st EXCEPT !.state = "quotes", !.quote = c]
    ELSE IF st.state = "arg" THEN
        IF c = " " \/ c = "\t"
        THEN [st EXCEPT !.args = Append(@, st.current),
                        !.current = "", !.state = "start"]
        ELSE [st EXCEPT !.current = @ \o c]
    ELSE IF c # " " /\ c # "\t" THEN
        [st EXCEPT !.state = "arg", !.current = @ \o c]
    ELSE st

RECURSIVE ParseLoop(_, _)
\* the loop of lines 176-222 over the remaining characters
ParseLoop(st, rest) ==
    IF rest = <<>> THEN st ELSE ParseLoop(ParseStep(st, Head(rest)), Tail(rest))

\* ParseFinish that also rejects a command ending in a pending escape
ParseFinish_RejectsPendingEscape(st, command) ==
    IF st.state = "quotes" \/ st.escapeNext
    THEN [args |-> <<>>,
          err |-> "Unclosed quote in command line: " \o Text(command)]
    ELSE IF st.current # ""
    THEN [args |-> Append(st.args, st.current), err |-> "nil"]
    ELSE [args |-> st.args, err |-> "nil"]

\* ParseFinish without the unclosed-quote test of lines 224-226
ParseFinish_NoQuoteTest(st, command) ==
    IF st.current # ""
    THEN [args |-> Append(st.args, st.current), err |-> "nil"]
    ELSE [args |-> st.args, err |-> "nil"]

\* after the loop, lines 224-232
ParseFinish(st, command) ==
    IF st.state = "quotes"
    THEN [args |-> <<>>,
          err |-> "Unclosed quote in command line: " \o Text(command)]
    ELSE IF st.current # ""
    THEN [args |-> Append(st.args, st.current), err |-> "nil"]
    ELSE [args |-> st.args, err |-> "nil"]

parseCommandLine(command) == ParseFinish(ParseLoop(ParseInit, command), command)

----------------------------------------------------------------------------
(* Inputs *)

Paths == {"a.mkv", "-t"}
Starts == {0, 3661}
Lengths == {-1, 0, 1}

ErrProbe == "ffprobe: exit status 1"
ErrPipe == "pipe: too many open files"
ErrStart == "exec: executable file not found in $PATH"

NoInfo == [err |-> "nil", Streams |-> <<>>]

\* what ffprobe.Run can return
Probes ==
    [err : {"nil"}, Streams : SeqsUpTo(Descriptors, MaxStreams)]
    \cup {[err |-> ErrProbe, Streams |-> <<>>]}

Alphabet == {"a", " ", "\t", "\"", "'", "\\"}

FooCmd ==
    <<"f", "o", "o", " ", "\"", "b", "a", "r", " ", "b", "a", "z", "\"",
      " ", "q", "u", "x">>

FooUnclosedCmd == <<"f", "o", "o", " ", "\"", "b", "a", "r">>

\* aa"a a": a quote opened in the middle of a word
MidQuoteCmd == <<"a", "a", "\"", "a", " ", "a", "\"">>

\* aa "": an empty quoted token
EmptyQuoteCmd == <<"a", "a", " ", "\"", "\"">>

Commands ==
    SeqsUpTo(Alphabet, MaxLen)
    \cup {FooCmd, FooUnclosedCmd, MidQuoteCmd, EmptyQuoteCmd}

ExitCodes == {0, 1}

----------------------------------------------------------------------------
(* State machine *)

Init ==
    /\ pc = "idle"
    /\ req = [op |-> "none", path |-> "", start |-> 0, length |-> 0,
              cmds |-> <<>>]
    /\ info = NoInfo
    /\ args = <<>>
    /\ cmda = <<>>
    /\ aerr = "nil"
    /\ r = "nil"
    /\ err = "nil"
    /\ pr = "none"
    /\ buf = <<>>
    /\ written = <<>>
    /\ proc = "none"
    /\ exitCode = 0
    /\ reaper = "none"
    /\ waitErr = "nil"
    /\ log = <<>>
    /\ got = <<>>
    /\ readErr = "none"

\* transcodePipe, lines 22-24: log the command, then exec.Command(args[0],
\* args[1:]...), whose args[0] panics on an empty vector
transcodePipeEnter(a) ==
    /\ args' = a
    /\ log' = Append(log, [kind |-> "command", args |-> a, err |-> "nil"])
    /\ pc' = IF a = <<>> THEN "panicked" ELSE "StdoutPipe"

\* the probe error test ignored
ProbeFailed_Ignored(probe) == FALSE

\* Transcode, line 91: err != nil after ffprobe.Run
ProbeFailed(probe) == probe.err # "nil"

\* Transcode, lines 75-99, up to the call of cmd.StdoutPipe; the probe's
\* result is the environment's choice
Transcode(path, start, length) ==
    /\ pc = "idle"
    /\ req' = [op |-> "Transcode", path |-> path, start |-> start,
               length |-> length, cmds |-> <<>>]
    /\ \E probe \in Probes :
         /\ info' = probe
         /\ IF ProbeFailed(probe)
            THEN /\ args' = TranscodeHead(path, start, length)
                 /\ err' = probe.err
                 /\ pc' = "returned"
                 /\ UNCHANGED log
            ELSE LET sa == StreamsArgs(probe.Streams) IN
                 IF sa.panic
                 THEN /\ args' = TranscodeHead(path, start, length)
                      /\ pc' = "panicked"
                      /\ UNCHANGED <<err, log>>
                 ELSE /\ transcodePipeEnter(
                             TranscodeHead(path, start, length)
                             \o sa.ret \o TranscodeTail)
                      /\ UNCHANGED err
    /\ UNCHANGED <<cmda, aerr, r, pr, buf, written, proc, exitCode, reaper,
                   waitErr, got, readErr>>

\* VP8Transcode, lines 102-122, up to the call of cmd.StdoutPipe
VP8Transcode(path, start, length) ==
    /\ pc = "idle"
    /\ req' = [op |-> "VP8Transcode", path |-> path, start |-> start,
               length |-> length, cmds |-> <<>>]
    /\ transcodePipeEnter(VP8TranscodeArgs(path, start, length))
    /\ UNCHANGED <<info, cmda, aerr, r, err, pr, buf, written, proc,
                   exitCode, reaper, waitErr, got, readErr>>

\* ChromecastTranscode, lines 125-143, up to the call of cmd.StdoutPipe
ChromecastTranscode(path, start, length) ==
    /\ pc = "idle"
    /\ req' = [op |-> "ChromecastTranscode", path |-> path, start |-> start,
               length |-> length, cmds |-> <<>>]
    /\ transcodePipeEnter(ChromecastTranscodeArgs(path, start, length))
    /\ UNCHANGED <<info, cmda, aerr, r, err, pr, buf, written, proc,
                   exitCode, reaper, waitErr, got, readErr>>

\* WebTranscode, lines 146-167, up to the call of cmd.StdoutPipe
WebTranscode(path, start, length) ==
    /\ pc = "idle"
    /\ req' = [op |-> "WebTranscode", path |-> path, start |-> start,
               length |-> length, cmds |-> <<>>]
    /\ transcodePipeEnter(WebTranscodeArgs(path, start, length))
    /\ UNCHANGED <<info, cmda, aerr, r, err, pr, buf, written, proc,
                   exitCode, reaper, waitErr, got, readErr>>

\* Exec, lines 236-243, up to the call of cmd.StdoutPipe
Exec(cmds, start, length) ==
    /\ pc = "idle"
    /\ req' = [op |-> "Exec", path |-> "", start |-> start,
               length |-> length, cmds |-> cmds]
    /\ LET p == parseCommandLine(cmds) IN
       /\ cmda' = p.args
       /\ aerr' = p.err
       /\ IF p.err # "nil"
          THEN /\ err' = p.err
               /\ pc' = "returned"
               /\ UNCHANGED <<args, log>>
          ELSE /\ transcodePipeEnter(p.args)
               /\ UNCHANGED err
    /\ UNCHANGED <<info, r, pr, buf, written, proc, exitCode, reaper,
                   waitErr, got, readErr>>

\* transcodePipe, lines 25-28, os.Pipe succeeded
StdoutPipeOk ==
    /\ pc = "StdoutPipe"
    /\ r' = "pr"
    /\ pr' = "open"
    /\ pc' = "Start"
    /\ UNCHANGED <<req, info, args, cmda, aerr, err, buf, written, proc,
                   exitCode, reaper, waitErr, log, got, readErr>>

\* transcodePipe, lines 25-28, os.Pipe failed: StdoutPipe returns (nil, err)
StdoutPipeFail ==
    /\ pc = "StdoutPipe"
    /\ r' = "nil"
    /\ err' = ErrPipe
    /\ pc' = "returned"
    /\ UNCHANGED <<req, info, args, cmda, aerr, pr, buf, written, proc,
                   exitCode, reaper, waitErr, log, got, readErr>>

\* transcodePipe, lines 29-32, cmd.Start succeeded
StartOk ==
    /\ pc = "Start"
    /\ proc' = "running"
    /\ pc' = "go"
    /\ UNCHANGED <<req, info, args, cmda, aerr, r, err, pr, buf, written,
                   exitCode, reaper, waitErr, log, got, readErr>>

\* StartFail without the return of line 31: control reaches the go statement
StartFail_NoReturn ==
    /\ pc = "Start"
    /\ err' = ErrStart
    /\ pr' = "closed"
    /\ pc' = "go"
    /\ UNCHANGED <<req, info, args, cmda, aerr, r, buf, written, proc,
                   exitCode, reaper, waitErr, log, got, readErr>>

\* transcodePipe, lines 29-32, cmd.Start failed: Start closes the parent's
\* pipe ends before returning its error; r keeps the value of line 25
StartFail ==
    /\ pc = "Start"
    /\ err' = ErrStart
    /\ pr' = "closed"
    /\ pc' = "returned"
    /\ UNCHANGED <<req, info, args, cmda, aerr, r, buf, written, proc,
                   exitCode, reaper, waitErr, log, got, readErr>>

\* transcodePipe, line 33: the go statement
GoReaper ==
    /\ pc = "go"
    /\ reaper' = "Wait"
    /\ pc' = "return"
    /\ UNCHANGED <<req, info, args, cmda, aerr, r, err, pr, buf, written,
                   proc, exitCode, waitErr, log, got, readErr>>

\* transcodePipe, line 39, and the builder's own return of (r, err)
Return ==
    /\ pc = "return"
    /\ pc' = "returned"
    /\ UNCHANGED <<req, info, args, cmda, aerr, r, err, pr, buf, written,
                   proc, exitCode, reaper, waitErr, log, got, readErr>>

\* the subprocess writes one byte to its stdout
SubWrite ==
    /\ proc = "running"
    /\ pr = "open"
    /\ Len(written) < MaxOut
    /\ written' = Append(written, Len(written) + 1)
    /\ buf' = Append(buf, Len(written) + 1)
    /\ UNCHANGED <<pc, req, info, args, cmda, aerr, r, err, pr, proc,
                   exitCode, reaper, waitErr, log, got, readErr>>

\* the subprocess exits, which closes its end of the pipe
SubExit(code) ==
    /\ proc = "running"
    /\ proc' = "exited"
    /\ exitCode' = code
    /\ UNCHANGED <<pc, req, info, args, cmda, aerr, r, err, pr, buf, written,
                   reaper, waitErr, log, got, readErr>>

\* ReaperWait that also waits for the caller to close the stream
ReaperWait_NeedsClose ==
    /\ reaper = "Wait"
    /\ proc = "exited"
    /\ pc = "closed"
    /\ waitErr' = IF exitCode = 0 THEN "nil"
                  ELSE "exit status " \o ToString(exitCode)
    /\ pr' = "closed"
    /\ reaper' = "Log"
    /\ UNCHANGED <<pc, req, info, args, cmda, aerr, r, err, buf, written,
                   proc, exitCode, log, got, readErr>>

\* the reaper, line 34: cmd.Wait() returns once the subprocess has exited;
\* before returning it closes the parent's end of the stdout pipe
ReaperWait ==
    /\ reaper = "Wait"
    /\ proc = "exited"
    /\ waitErr' = IF exitCode = 0 THEN "nil"
                  ELSE "exit status " \o ToString(exitCode)
    /\ pr' = "closed"
    /\ reaper' = "Log"
    /\ UNCHANGED <<pc, req, info, args, cmda, aerr, r, err, buf, written,
                   proc, exitCode, log, got, readErr>>

\* ReaperLog without the err != nil test of line 35
ReaperLog_Unconditional ==
    /\ reaper = "Log"
    /\ log' = Append(log, [kind |-> "failed", args |-> args, err |-> waitErr])
    /\ reaper' = "done"
    /\ UNCHANGED <<pc, req, info, args, cmda, aerr, r, err, pr, buf, written,
                   proc, exitCode, waitErr, got, readErr>>

\* the reaper, lines 35-37
ReaperLog ==
    /\ reaper = "Log"
    /\ log' = IF waitErr # "nil"
              THEN Append(log, [kind |-> "failed", args |-> args,
                                err |-> waitErr])
              ELSE log
    /\ reaper' = "done"
    /\ UNCHANGED <<pc, req, info, args, cmda, aerr, r, err, pr, buf, written,
                   proc, exitCode, waitErr, got, readErr>>

\* the caller holds a stream it may read
Reading == pc = "returned" /\ r = "pr" /\ err = "nil" /\ readErr = "none"

\* r.Read returns some of the bytes in the pipe
ReadData ==
    /\ Reading
    /\ pr = "open"
    /\ buf # <<>>
    /\ \E k \in 1..Len(buf) :
         /\ got' = got \o SubSeq(buf, 1, k)
         /\ buf' = SubSeq(buf, k + 1, Len(buf))
    /\ UNCHANGED <<pc, req, info, args, cmda, aerr, r, err, pr, written,
                   proc, exitCode, reaper, waitErr, log, readErr>>

\* r.Read returns io.EOF: the pipe is empty and the writer has exited
ReadEOF ==
    /\ Reading
    /\ pr = "open"
    /\ buf = <<>>
    /\ proc = "exited"
    /\ readErr' = "EOF"
    /\ UNCHANGED <<pc, req, info, args, cmda, aerr, r, err, pr, buf, written,
                   proc, exitCode, reaper, waitErr, log, got>>

\* r.Read on the file cmd.Wait has closed returns os.ErrClosed
ReadClosed ==
    /\ Reading
    /\ pr = "closed"
    /\ readErr' = "closed"
    /\ UNCHANGED <<pc, req, info, args, cmda, aerr, r, err, pr, buf, written,
                   proc, exitCode, reaper, waitErr, log, got>>

\* the caller closes the stream and reads no more
CallerClose ==
    /\ pc = "returned"
    /\ r = "pr"
    /\ err = "nil"
    /\ pr' = "closed"
    /\ pc' = "closed"
    /\ UNCHANGED <<req, info, args, cmda, aerr, r, err, buf, written, proc,
                   exitCode, reaper, waitErr, log, got, readErr>>

Next ==
    \/ \E path \in Paths, start \in Starts, length \in Lengths :
          Transcode(path, start, length)
    \/ \E path \in Paths, start \in Starts, length \in Lengths :
          VP8Transcode(path, start, length)
    \/ \E path \in Paths, start \in Starts, length \in Lengths :
          ChromecastTranscode(path, start, length)
    \/ \E path \in Paths, start \in Starts, length \in Lengths :
          WebTranscode(path, start, length)
    \/ \E cmds \in Commands : Exec(cmds, 0, -1)
    \/ StdoutPipeOk
    \/ StdoutPipeFail
    \/ StartOk
    \/ StartFail
    \/ GoReaper
    \/ Return
    \/ SubWrite
    \/ \E code \in ExitCodes : SubExit(code)
    \/ ReaperWait
    \/ ReaperLog
    \/ ReadData
    \/ ReadEOF
    \/ ReadClosed
    \/ CallerClose

Spec == Init /\ [][Next]_vars

\* The Go scheduler runs every runnable goroutine: the calling goroutine
\* reaches its go statement, and the reaper, once its cmd.Wait() can return
\* or has returned, takes its next step.  Nothing is assumed of the
\* subprocess or of what the caller does with the stream.
FairSpec ==
    /\ Spec
    /\ WF_vars(GoReaper)
    /\ WF_vars(ReaperWait)
    /\ WF_vars(ReaperLog)

----------------------------------------------------------------------------
(* Properties *)

\* transcodePipe returned a launch error
LaunchFailed == pc = "returned" /\ err \in {ErrPipe, ErrStart}

\* positions of the failure records in the log
FailureRecords == {i \in DOMAIN log : log[i].kind = "failed"}

\* C1: after a successful launch whose subprocess exits non-zero, the
\* caller's reads never fail, and once they report end-of-stream the caller
\* has received every byte the subprocess wrote.
C1_ReaderSeesAllBytesThenEOF ==
    (proc = "exited" /\ exitCode # 0) =>
        /\ readErr # "closed"
        /\ (readErr = "EOF" => got = written)

\* C2: when StdoutPipe or Start fails, transcodePipe has returned that error
\* and no reaper goroutine exists, then or ever after; a reaper exists only
\* after a successful Start.
C2_NoReaperOnLaunchFailure ==
    /\ (err \in {ErrPipe, ErrStart} =>
            pc = "returned" /\ reaper = "none" /\ proc = "none")
    /\ (reaper # "none" => proc # "none" /\ err = "nil")

C2_Witness == pc = "returned" /\ err = ErrStart /\ reaper = "none"

\* C3: whenever transcodePipe has returned a launch error, the stream it
\* returned with it is nil.
C3_NilStreamOnLaunchError == LaunchFailed => r = "nil"

\* C4: the log holds at most one failure record; it is written by the reaper
\* only, for a non-zero exit, carries the argument vector given to
\* transcodePipe and the wait error; a finished reaper has logged exactly one
\* failure after a non-zero exit and none after a zero exit; the error
\* returned by a successful launch is nil and stays nil.
C4_FailureLoggedOnceNeverReturned ==
    /\ Cardinality(FailureRecords) <= 1
    /\ \A i \in FailureRecords :
          /\ reaper = "done"
          /\ exitCode # 0
          /\ log[i].args = args
          /\ log[i].args = log[1].args
          /\ log[i].err = waitErr
    /\ (reaper = "done" => (Cardinality(FailureRecords) = 1 <=> exitCode # 0))
    /\ (proc # "none" => err = "nil")

C4_Witness ==
    /\ pc = "returned"
    /\ reaper = "done"
    /\ exitCode # 0
    /\ Cardinality(FailureRecords) = 1
    /\ err = "nil"

\* C5: in Transcode, when the probe failed, its error has been returned and
\* transcodePipe was never entered: nothing was logged, no pipe, no
\* subprocess, no reaper.
C5_ProbeFailureNoLaunch ==
    (req.op = "Transcode" /\ info.err # "nil") =>
        /\ pc = "returned"
        /\ err = info.err
        /\ r = "nil"
        /\ log = <<>>
        /\ pr = "none"
        /\ proc = "none"
        /\ reaper = "none"

C5_Witness ==
    req.op = "Transcode" /\ info.err = ErrProbe /\ pc = "returned"

\* C6: when the scan of Exec's command ends in the quotes state,
\* parseCommandLine returned the unclosed-quote error holding the command
\* text and Exec returned that error without entering transcodePipe.
C6_UnclosedQuoteNoLaunch ==
    (req.op = "Exec" /\ ParseLoop(ParseInit, req.cmds).state = "quotes") =>
        /\ aerr = "Unclosed quote in command line: " \o Text(req.cmds)
        /\ cmda = <<>>
        /\ err = aerr
        /\ pc = "returned"
        /\ r = "nil"
        /\ log = <<>>
        /\ pr = "none"
        /\ proc = "none"
        /\ reaper = "none"

C6_Witness ==
    /\ req.op = "Exec"
    /\ req.cmds = FooUnclosedCmd
    /\ pc = "returned"
    /\ err = "Unclosed quote in command line: foo \"bar"

\* C7 as stated: the command foo "bar baz" qux is tokenized to oo, bar baz,
\* qux.
C7_FooTokensAsClaimed ==
    (req.op = "Exec" /\ req.cmds = FooCmd) =>
        cmda = <<"oo", "bar baz", "qux">>

\* C7: the command foo "bar baz" qux is tokenized without error to exactly
\* foo, bar baz, qux: the forced escape copies the first character f into
\* the first token.
C7_FooTokens ==
    (req.op = "Exec" /\ req.cmds = FooCmd) =>
        /\ cmda = <<"foo", "bar baz", "qux">>
        /\ aerr = "nil"
        /\ args = cmda

C7_Witness ==
    req.op = "Exec" /\ req.cmds = FooCmd /\ Len(cmda) = 3 /\ pc = "StdoutPipe"

\* the formatted durations of the model's inputs
DurationStrings ==
    {FormatDurationSexagesimal(d) : d \in {x \in Lengths \cup Starts : x >= 0}}

\* positions of a -t flag followed by a duration
LengthFlags(a) ==
    {i \in 1..(Len(a) - 1) : a[i] = "-t" /\ a[i + 1] \in DurationStrings}

\* a has exactly one -t flag, followed by the formatted length
HasLengthFlag(a, length) ==
    /\ Cardinality(LengthFlags(a)) = 1
    /\ \A i \in LengthFlags(a) : a[i + 1] = FormatDurationSexagesimal(length)

\* C8: the vector of Transcode has the pair -t <length> exactly when
\* length >= 0; the vectors of VP8Transcode, ChromecastTranscode and
\* WebTranscode have it exactly when length > 0.
C8_LengthFlagRule ==
    /\ req.op = "Transcode" =>
          IF req.length >= 0 THEN HasLengthFlag(args, req.length)
          ELSE LengthFlags(args) = {}
    /\ req.op \in {"VP8Transcode", "ChromecastTranscode", "WebTranscode"} =>
          IF req.length > 0 THEN HasLengthFlag(args, req.length)
          ELSE LengthFlags(args) = {}

C8_Witness ==
    /\ req.op = "Transcode"
    /\ req.length = 0
    /\ pc = "StdoutPipe"
    /\ \E i \in 1..(Len(args) - 1) : args[i] = "-t" /\ args[i + 1] = "00:00:00"

\* the -map pair of a descriptor with a numeric index
MapPair(s) == <<"-map", "0:" \o ToString(s.index.n)>>

\* C9: for every probed descriptor with a numeric index, streamArgs returns
\* the directive of the policy table followed by one -map pair for the index,
\* and the empty directive for any other codec_type.
C9_PolicyTable ==
    \A i \in DOMAIN info.Streams :
        LET s == info.Streams[i]
            d == streamArgs(s)
        IN s.index.t = "float64" =>
            /\ ~d.panic
            /\ IsStr(s.codec_type, "video") =>
                  d.ret = <<"-target", "pal-dvd">> \o MapPair(s)
            /\ (IsStr(s.codec_type, "audio") /\ IsStr(s.codec_name, "dca")) =>
                  d.ret = <<"-acodec", "ac3", "-ab", "224k", "-ac", "2">>
                          \o MapPair(s)
            /\ (IsStr(s.codec_type, "audio") /\ ~IsStr(s.codec_name, "dca")) =>
                  d.ret = <<"-acodec", "copy">> \o MapPair(s)
            /\ IsStr(s.codec_type, "subtitle") =>
                  d.ret = <<"-scodec", "copy">> \o MapPair(s)
            /\ (\A ct \in {"video", "audio", "subtitle"} :
                    ~IsStr(s.codec_type, ct)) =>
                  d.ret = <<>>

C9_Witness ==
    /\ req.op = "Transcode"
    /\ pc = "StdoutPipe"
    /\ info.Streams = <<[codec_type |-> Str("audio"),
                         codec_name |-> Str("dca"), index |-> F64(1)]>>
    /\ args = TranscodeHead(req.path, req.start, req.length)
              \o <<"-acodec", "ac3", "-ab", "224k", "-ac", "2", "-map", "0:1">>
              \o TranscodeTail

\* C10: whenever the reaper's cmd.Wait() has returned, transcodePipe has
\* already returned the stream to its caller.
C10_StreamReturnedBeforeExitObserved ==
    reaper \in {"Log", "done"} => pc \in {"returned", "closed"}

\* C11: once the subprocess of a successful launch has exited, the reaper
\* eventually finishes (its wait returned and any failure is logged),
\* whatever the caller does with the stream.
C11_ReaperEventuallyCompletes ==
    (proc = "exited") ~>
        (reaper = "done" /\ (exitCode # 0 => FailureRecords # {}))

\* the reaper finished although the caller never read from nor closed the
\* stream
C11_Witness ==
    /\ reaper = "done"
    /\ pc = "returned"
    /\ pr = "closed"
    /\ got = <<>>
    /\ readErr = "none"

\* the tokenizer's locals after the first k characters of Exec's command
Scan(k) == ParseLoop(ParseInit, SubSeq(req.cmds, 1, k))

\* the positions of Exec's command, each read in the state Scan(k - 1)
Positions == IF req.op = "Exec" THEN 1..Len(req.cmds) ELSE {}

\* C12: the first character of a non-empty command, whatever it is, is
\* copied into the pending token and changes nothing else: no quotes state,
\* no pending escape, nothing skipped, nothing emitted; a one-character
\* command yields that character as its only token.
C12_FirstCharacterLiteral ==
    (req.op = "Exec" /\ req.cmds # <<>>) =>
        /\ Scan(1) = [args |-> <<>>, state |-> "start",
                      current |-> req.cmds[1], quote |-> "\"",
                      escapeNext |-> FALSE]
        /\ Len(req.cmds) = 1 => (cmda = <<req.cmds[1]>> /\ aerr = "nil")

C12_Witness ==
    /\ req.op = "Exec"
    /\ req.cmds = <<"\"">>
    /\ cmda = <<"\"">>
    /\ aerr = "nil"
    /\ pc = "StdoutPipe"

\* C13 as stated: an unescaped quote read in the arg state is appended to the
\* pending token like any other character and opens no quotes state.
C13_MidTokenQuoteOrdinary ==
    \A k \in Positions :
        LET st == Scan(k - 1)
            c == req.cmds[k]
        IN (st.state = "arg" /\ ~st.escapeNext /\ c \in {"\"", "'"}) =>
               Scan(k) = [st EXCEPT !.current = @ \o c]

\* C13: an unescaped quote read in the start state or in the arg state is
\* not copied: it opens the quotes state, records the quote character and
\* keeps the pending token, to which the quoted text is then appended.
C13_QuoteOpensFromStartAndArg ==
    /\ \A k \in Positions :
          LET st == Scan(k - 1)
              c == req.cmds[k]
          IN (st.state \in {"start", "arg"} /\ ~st.escapeNext
              /\ c \in {"\"", "'"}) =>
                 Scan(k) = [st EXCEPT !.state = "quotes", !.quote = c]
    /\ (req.op = "Exec" /\ req.cmds = MidQuoteCmd) =>
          (cmda = <<"aaa a">> /\ aerr = "nil")

C13_Witness ==
    /\ req.op = "Exec"
    /\ req.cmds = MidQuoteCmd
    /\ Scan(2).state = "arg"
    /\ Scan(3).state = "quotes"
    /\ cmda = <<"aaa a">>
    /\ pc = "StdoutPipe"

\* C14: outside quotes, an unescaped space or tab read while the pending
\* token is not empty ends that token and emits it before the next word is
\* read, also when the token was begun by an escaped character; the command
\* `a a` yields two tokens.
C14_WhitespaceEndsPendingToken ==
    /\ \A k \in Positions :
          LET st == Scan(k - 1)
              c == req.cmds[k]
          IN (st.state # "quotes" /\ ~st.escapeNext /\ c \in {" ", "\t"}
              /\ st.current # "" /\ k < Len(req.cmds)
              /\ req.cmds[k + 1] = "a") =>
                 Scan(k) = [st EXCEPT !.args = Append(@, st.current),
                                      !.current = "", !.state = "start"]
    /\ (req.op = "Exec" /\ req.cmds = <<"a", " ", "a">>) =>
          cmda = <<"a", "a">>

\* C15: outside quotes an unescaped backslash is not copied and only sets the
\* pending escape; the character read with the escape pending is appended to
\* the pending token and has no other effect (no token ends, no quotes state
\* opens, no new escape starts); inside quotes a backslash is appended like
\* any other character and sets no escape.
C15_BackslashEscapesOutsideQuotes ==
    \A k \in Positions :
        LET st == Scan(k - 1)
            c == req.cmds[k]
        IN /\ (st.state # "quotes" /\ ~st.escapeNext /\ c = "\\") =>
                  Scan(k) = [st EXCEPT !.escapeNext = TRUE]
           /\ (st.state # "quotes" /\ st.escapeNext) =>
                  Scan(k) = [st EXCEPT !.current = @ \o c,
                                       !.escapeNext = FALSE]
           /\ (st.state = "quotes" /\ c = "\\") =>
                  Scan(k) = [st EXCEPT !.current = @ \o "\\"]

\* a\ followed by a space: the backslash is dropped and the space is part of
\* the token
C15_Witness ==
    /\ req.op = "Exec"
    /\ req.cmds = <<"a", "\\", " ">>
    /\ Scan(2).escapeNext
    /\ cmda = <<"a ">>
    /\ pc = "StdoutPipe"

\* C16: in the quotes state every character other than the quote that opened
\* it is appended to the pending token and changes nothing else; the opening
\* quote character emits the pending token, empty or not, and returns to the
\* start state.
C16_QuotesVerbatimUntilMatch ==
    /\ \A k \in Positions :
          LET st == Scan(k - 1)
              c == req.cmds[k]
          IN st.state = "quotes" =>
                 IF c # st.quote
                 THEN Scan(k) = [st EXCEPT !.current = @ \o c]
                 ELSE Scan(k) = [st EXCEPT !.args = Append(@, st.current),
                                           !.current = "", !.state = "start"]
    /\ (req.op = "Exec" /\ req.cmds = EmptyQuoteCmd) =>
          (cmda = <<"aa", "">> /\ aerr = "nil")

C16_Witness ==
    /\ req.op = "Exec"
    /\ req.cmds = EmptyQuoteCmd
    /\ Scan(4).state = "quotes"
    /\ Scan(4).current = ""
    /\ cmda = <<"aa", "">>
    /\ pc = "StdoutPipe"

\* C17: parseCommandLine returns an error exactly when the scan ends in the
\* quotes state; otherwise, also when the command ends in a backslash, the
\* error is nil and the tokens are those emitted during the scan followed by
\* the pending token when it is not empty.
C17_ErrorIffUnclosedQuote ==
    req.op = "Exec" =>
        LET st == Scan(Len(req.cmds)) IN
        /\ aerr # "nil" <=> st.state = "quotes"
        /\ st.state # "quotes" =>
              cmda = IF st.current # "" THEN Append(st.args, st.current)
                     ELSE st.args

\* aa\ : the command ends in an unmatched backslash
C17_Witness ==
    /\ req.op = "Exec"
    /\ req.cmds = <<"a", "a", "\\">>
    /\ Scan(3).escapeNext
    /\ aerr = "nil"
    /\ cmda = <<"aa">>
    /\ pc = "StdoutPipe"

\* C18: Exec never panics and never enters transcodePipe with an empty
\* argument vector.
C18_ExecNeverEmptyArgv ==
    req.op = "Exec" =>
        /\ pc # "panicked"
        /\ \A i \in DOMAIN log : log[i].kind = "command" => log[i].args # <<>>

Builders ==
    {"Transcode", "VP8Transcode", "ChromecastTranscode", "WebTranscode"}

\* a builder has handed its complete argument vector to transcodePipe
Built == req.op \in Builders /\ log # <<>>

\* positions of the -ss pair and of the -i pair of the request
StartFlags(a) ==
    {i \in 1..(Len(a) - 1) :
        a[i] = "-ss" /\ a[i + 1] = FormatDurationSexagesimal(req.start)}
InputFlags(a) == {i \in 1..(Len(a) - 1) : a[i] = "-i" /\ a[i + 1] = req.path}

\* what all four vectors share: the encoder first, one -ss pair before one
\* -i pair, the output format after the input, pipe: last
SharedShape(a) ==
    /\ a[1] \in {"ffmpeg", "avconv"}
    /\ Cardinality(StartFlags(a)) = 1
    /\ Cardinality(InputFlags(a)) = 1
    /\ \A s \in StartFlags(a), i \in InputFlags(a) :
          /\ s < i
          /\ a[Len(a) - 2] = "-f"
          /\ Len(a) - 2 > i + 1
    /\ a[Len(a)] = "pipe:"

\* C19 as stated: in every builder's vector the -t pair, when present, lies
\* after the -ss pair and before the -i pair.
C19_LengthBeforeInputEverywhere ==
    Built =>
        /\ SharedShape(args)
        /\ \A t \in LengthFlags(args), s \in StartFlags(args),
              i \in InputFlags(args) : s < t /\ t < i

\* C19: every builder's vector has the shared shape; in Transcode and
\* VP8Transcode the -t pair directly follows the -ss pair and directly
\* precedes the -i pair, and Transcode's per-stream directives lie between
\* the -i pair and -f; in ChromecastTranscode and WebTranscode the -t pair
\* comes after the -i pair and the encode flags, directly before -f mp4 pipe:.
C19_SharedShape ==
    Built =>
        /\ SharedShape(args)
        /\ \A t \in LengthFlags(args), s \in StartFlags(args),
              i \in InputFlags(args) :
              IF req.op \in {"Transcode", "VP8Transcode"}
              THEN t = s + 2 /\ i = t + 2
              ELSE t > i + 1 /\ t = Len(args) - 4
        /\ req.op = "Transcode" =>
              \A i \in InputFlags(args) :
                  SubSeq(args, i + 2, Len(args) - 3)
                      = StreamsArgs(info.Streams).ret

C19_Witness ==
    /\ req.op = "ChromecastTranscode"
    /\ req.length = 1
    /\ pc = "StdoutPipe"
    /\ LengthFlags(args) = {Len(args) - 4}
    /\ InputFlags(args) = {4}

\* C20: streamArgs returns a directive for every probed descriptor, also for
\* one whose index is missing or not a number, so Transcode never panics in
\* its loop over the streams.
C20_StreamArgsTotal ==
    /\ \A i \in DOMAIN info.Streams : ~streamArgs(info.Streams[i]).panic
    /\ req.op = "Transcode" => pc # "panicked"

====
